---- MODULE Spec2Model ----
(***************************************************************************)
(* Model of weather-mcp-server/weather_server.py: the Open-Meteo fetcher,  *)
(* the weather-code translator and the three view builders                 *)
(* (get_current_weather, get_weekly_forecast, get_today_hourly_weather).   *)
(*                                                                         *)
(* Python values are tagged records so that values of different Python     *)
(* types can be compared: None is [null |-> TRUE], a str is [str |-> s],   *)
(* a number is [num |-> n], a list is [list |-> seq], a dict is            *)
(* [dict |-> function from keys to values].  An exception leaving a        *)
(* function is [raise |-> name].  The Japanese string literals of the      *)
(* source are written in romaji and the degree sign as "deg", because the  *)
(* module is ASCII only; distinct literals stay distinct and the prefix    *)
(* relations between them are kept.                                        *)
(***************************************************************************)
EXTENDS Integers, Sequences, FiniteSets, TLC

VARIABLES upstream, clock, tool, args, data, result, reads, passes, stdout,
          code, label

vars == <<upstream, clock, tool, args, data, result, reads, passes, stdout,
          code, label>>

----------------------------------------------------------------------------
(* Python values *)

None == [null |-> TRUE]
Str(s) == [str |-> s]
Num(n) == [num |-> n]
Bool(b) == [bool |-> b]
List(q) == [list |-> q]
Dict(f) == [dict |-> f]
Raise(e) == [raise |-> e]

EmptyDict == Dict(<<>>)
EmptyList == List(<<>>)

IsStr(v) == "str" \in DOMAIN v
IsDict(v) == "dict" \in DOMAIN v
IsRaise(v) == "raise" \in DOMAIN v

\* key in d
Contains(d, k) == k \in DOMAIN d.dict

\* d.get(k, default)
Get(d, k, default) == IF k \in DOMAIN d.dict THEN d.dict[k] ELSE default

\* len(l) and l[i] with Python's 0-based index
PyLen(l) == Len(l.list)
Index(l, i) == l.list[i + 1]

\* str(v), as the f-strings apply it to a value
PyStr(v) ==
  IF "str" \in DOMAIN v THEN v.str
  ELSE IF "num" \in DOMAIN v THEN ToString(v.num)
  ELSE IF "bool" \in DOMAIN v THEN (IF v.bool THEN "True" ELSE "False")
  ELSE "None"

\* s.startswith(p)
startswith(s, p) == Len(s) >= Len(p) /\ SubSeq(s, 1, Len(p)) = p

\* s[:n]
Prefix(s, n) == SubSeq(s, 1, IF Len(s) < n THEN Len(s) ELSE n)

\* the dict with the entries of f whose keys are in S
Restrict(f, S) == [k \in S |-> f[k]]

----------------------------------------------------------------------------
(* weather_code_to_description *)

weather_descriptions ==
  (0 :> "hare") @@ (1 :> "omo ni hare") @@ (2 :> "ichibu kumori") @@
  (3 :> "kumori") @@ (45 :> "kiri") @@ (48 :> "muhyo") @@
  (51 :> "yowai uteki") @@ (53 :> "chuteido no uteki") @@
  (55 :> "tsuyoi uteki") @@ (56 :> "yowai touteki") @@
  (57 :> "tsuyoi touteki") @@ (61 :> "yowai ame") @@
  (63 :> "chuteido no ame") @@ (65 :> "tsuyoi ame") @@
  (66 :> "yowai touu") @@ (67 :> "tsuyoi touu") @@ (71 :> "yowai yuki") @@
  (73 :> "chuteido no yuki") @@ (75 :> "tsuyoi yuki") @@
  (77 :> "yuki ryushi") @@ (80 :> "yowai niwakaame") @@
  (81 :> "chuteido no niwakaame") @@ (82 :> "tsuyoi niwakaame") @@
  (85 :> "yowai niwakayuki") @@ (86 :> "tsuyoi niwakayuki") @@
  (95 :> "raiu") @@ (96 :> "keido no raiu to hyo") @@
  (99 :> "hageshii raiu to hyo")

\* the prefix of the computed default, "fumei na tenki kodo: {code}"
UnknownCodeMarker == "fumei na tenki kodo: "

\* a lookup that falls back to the label of code 0 instead of the marker
weather_code_to_description_Mut(c) ==
  IF "num" \in DOMAIN c /\ c.num \in DOMAIN weather_descriptions
  THEN weather_descriptions[c.num]
  ELSE weather_descriptions[0]

weather_code_to_description(c) ==
  IF "num" \in DOMAIN c /\ c.num \in DOMAIN weather_descriptions
  THEN weather_descriptions[c.num]
  ELSE UnknownCodeMarker \o PyStr(c)

----------------------------------------------------------------------------
(* fetch_weather_data *)

\* The request ends in one of: the transport fails (URLError), the server
\* answers with an HTTP error status (HTTPError), the body does not decode
\* (UnicodeDecodeError, JSONDecodeError), or the body decodes to a payload.
FailureKinds == {"transport", "http", "decode"}

ApiErrorPrefix == "API rikuesuto ni shippai shimashita: "

\* a handler that catches only URLError (and its subclass HTTPError)
fetch_weather_data_Mut(up) ==
  IF up.kind = "ok" THEN up.payload
  ELSE IF up.kind = "decode" THEN Raise(up.reason)
  ELSE Dict([error |-> Str(ApiErrorPrefix \o up.reason)])

fetch_weather_data(up) ==
  IF up.kind = "ok" THEN up.payload
  ELSE Dict([error |-> Str(ApiErrorPrefix \o up.reason)])

----------------------------------------------------------------------------
(* helpers shared by the view builders *)

\* a test that only recognises a value whose single key is 'error'
HasError_Mut(d) == DOMAIN d.dict = {"error"}

\* "error" in data
HasError(d) == Contains(d, "error")

\* d.get(k) without the default argument
GetOr_Mut(d, k, default) == IF k \in DOMAIN d.dict THEN d.dict[k] ELSE None

\* data.get(group, {}) and group.get(array, []): the lookups that carry a
\* default for an absent group or array
GetOr(d, k, default) == Get(d, k, default)

\* an off-by-one bounds test, i + 1 < len(arr)
FormatAt_Mut(arr, i, suffix) ==
  IF i + 1 < PyLen(arr) THEN Str(PyStr(Index(arr, i)) \o suffix) ELSE Str("N/A")

\* f"{arr[i]}<suffix>" if i < len(arr) else "N/A"
FormatAt(arr, i, suffix) ==
  IF i < PyLen(arr) THEN Str(PyStr(Index(arr, i)) \o suffix) ELSE Str("N/A")

\* weather_code_to_description(arr[i]) if i < len(arr) else "fumei"
DescribeAt(arr, i) ==
  IF i < PyLen(arr) THEN Str(weather_code_to_description(Index(arr, i)))
  ELSE Str("fumei")

Coordinates(a) == Dict([latitude |-> Num(a.latitude), longitude |-> Num(a.longitude)])

----------------------------------------------------------------------------
(* get_current_weather *)

\* the look-up of an absent code degrades to the unknown-code text
current_weather_Mut(current) ==
  weather_code_to_description(Get(current, "weather_code", None))

\* weather_code_to_description(current.get("weather_code", 0))
current_weather(current) ==
  weather_code_to_description(Get(current, "weather_code", Num(0)))

\* f"{current.get(field, 'N/A')}<suffix>"
current_field(current, field, suffix) ==
  Str(PyStr(Get(current, field, Str("N/A"))) \o suffix)

CurrentView(current, a) ==
  Dict([location |-> Str(a.location_name),
        coordinates |-> Coordinates(a),
        temperature |-> current_field(current, "temperature_2m", "degC"),
        humidity |-> current_field(current, "relative_humidity_2m", "%"),
        weather |-> Str(current_weather(current)),
        windspeed |-> current_field(current, "windspeed_10m", " km/h"),
        weather_code |-> Get(current, "weather_code", None)])

CurrentReads ==
  {"current", "current.temperature_2m", "current.relative_humidity_2m",
   "current.weather_code", "current.windspeed_10m"}

\* The value returned (or the exception raised), the payload keys read after
\* the error test, and what print(json.dumps(data)) wrote.
get_current_weather(up, a) ==
  LET d == fetch_weather_data(up) IN
  IF IsRaise(d) THEN [data |-> d, ret |-> d, reads |-> {}, out |-> <<>>]
  ELSE IF HasError(d) THEN [data |-> d, ret |-> d, reads |-> {}, out |-> <<d>>]
  ELSE LET current == GetOr(d, "current", EmptyDict) IN
       IF ~IsDict(current)
       THEN [data |-> d, ret |-> Raise("AttributeError"),
             reads |-> {"current"}, out |-> <<d>>]
       ELSE [data |-> d, ret |-> CurrentView(current, a),
             reads |-> CurrentReads, out |-> <<d>>]

----------------------------------------------------------------------------
(* get_weekly_forecast *)

day_data(times, weather_codes, temp_max, temp_min, precipitation, i) ==
  Dict([date |-> Index(times, i),
        weather |-> DescribeAt(weather_codes, i),
        temparature_max |-> FormatAt(temp_max, i, "degC"),
        temparature_min |-> FormatAt(temp_min, i, "degC"),
        precipitation |-> FormatAt(precipitation, i, " mm")])

WeeklyReads(times) ==
  {"daily", "daily.time", "daily.weather_code", "daily.temperature_2m_max",
   "daily.temperature_2m_min", "daily.precipitation_sum"}
  \cup (IF PyLen(times) > 0 THEN {"daily.time[i]"} ELSE {})

get_weekly_forecast(up, a) ==
  LET d == fetch_weather_data(up) IN
  IF IsRaise(d) THEN [data |-> d, ret |-> d, reads |-> {}]
  ELSE IF HasError(d) THEN [data |-> d, ret |-> d, reads |-> {}]
  ELSE LET daily == GetOr(d, "daily", EmptyDict) IN
       IF ~IsDict(daily)
       THEN [data |-> d, ret |-> Raise("AttributeError"), reads |-> {"daily"}]
       ELSE LET times == GetOr(daily, "time", EmptyList)
                weather_codes == GetOr(daily, "weather_code", EmptyList)
                temp_max == GetOr(daily, "temperature_2m_max", EmptyList)
                temp_min == GetOr(daily, "temperature_2m_min", EmptyList)
                precipitation == GetOr(daily, "precipitation_sum", EmptyList)
                forecast == [j \in 1..PyLen(times) |->
                               day_data(times, weather_codes, temp_max,
                                        temp_min, precipitation, j - 1)]
            IN [data |-> d,
                ret |-> Dict([location |-> Str(a.location_name),
                              coordinates |-> Coordinates(a),
                              forecast_period |-> Str("7 nichikan"),
                              forecast |-> List(forecast)]),
                reads |-> WeeklyReads(times)]

----------------------------------------------------------------------------
(* get_today_hourly_weather *)

\* the view-local error with the text of the upstream error in front
HourlyUnavailable_Mut ==
  Dict([error |-> Str(ApiErrorPrefix \o "jikan deta ga shutoku dekimasen deshita.")])

\* {"error": "jikan deta ga shutoku dekimasen deshita."}
HourlyUnavailable ==
  Dict([error |-> Str("jikan deta ga shutoku dekimasen deshita.")])

\* The zones ZoneInfo resolves; any other key (or a key that is not a str)
\* makes ZoneInfo raise, and the except branch takes the process-local date.
\* clk.zone[z] is today's date in zone z, clk.local the process-local date.
today_str(d, clk) ==
  LET tz_name == Get(d, "timezone", Str("Asia/Tokyo")) IN
  IF IsStr(tz_name) /\ tz_name.str \in DOMAIN clk.zone
  THEN clk.zone[tz_name.str]
  ELSE clk.local

\* a filter that keeps every timestamp containing the year of the prefix
hour_matches_Mut(t, day_prefix) ==
  IsStr(t) /\ startswith(t.str, Prefix(day_prefix, 4))

\* isinstance(t, str) and t.startswith(day_prefix)
hour_matches(t, day_prefix) == IsStr(t) /\ startswith(t.str, day_prefix)

hour_item(times, temps, codes, precs, i) ==
  Dict([time |-> Index(times, i),
        temperature |-> FormatAt(temps, i, "degC"),
        weather |-> DescribeAt(codes, i),
        weader_code |-> IF i < PyLen(codes) THEN Index(codes, i) ELSE None,
        precipitation |-> FormatAt(precs, i, " mm")])

\* the 0-based indexes of times, in order
Indexes(times) == [j \in 1..PyLen(times) |-> j - 1]

build_hours_for(times, temps, codes, precs, day_prefix) ==
  LET keep(i) == hour_matches(Index(times, i), day_prefix)
      kept == SelectSeq(Indexes(times), keep)
  IN [j \in 1..Len(kept) |-> hour_item(times, temps, codes, precs, kept[j])]

\* a test that accepts a str of any length
usable_current_time_Mut(current_time) == IsStr(current_time)

\* isinstance(current_time, str) and len(current_time) >= 10
usable_current_time(current_time) ==
  IsStr(current_time) /\ Len(current_time.str) >= 10

HourlyReads ==
  {"hourly", "hourly.time", "hourly.temperature_2m", "hourly.weather_code",
   "hourly.precipitation"}

HourlyView(a, today, hours) ==
  Dict([location |-> Str(a.location_name),
        coordinates |-> Coordinates(a),
        date |-> Str(today),
        hours |-> List(hours)])

\* The value returned (or the exception raised), the payload keys read after
\* the error test, and the day prefixes build_hours_for was called with.
get_today_hourly_weather(up, clk, a) ==
  LET d == fetch_weather_data(up) IN
  IF IsRaise(d) THEN [data |-> d, ret |-> d, reads |-> {}, passes |-> <<>>]
  ELSE IF HasError(d) THEN [data |-> d, ret |-> d, reads |-> {}, passes |-> <<>>]
  ELSE LET hourly == GetOr(d, "hourly", EmptyDict) IN
  IF ~IsDict(hourly)
  THEN [data |-> d, ret |-> Raise("AttributeError"), reads |-> {"hourly"},
        passes |-> <<>>]
  ELSE LET times == GetOr(hourly, "time", EmptyList)
           temps == GetOr(hourly, "temperature_2m", EmptyList)
           codes == GetOr(hourly, "weather_code", EmptyList)
           precs == GetOr(hourly, "precipitation", EmptyList)
       IN
  IF PyLen(times) = 0
  THEN [data |-> d, ret |-> HourlyUnavailable, reads |-> HourlyReads,
        passes |-> <<>>]
  ELSE LET today == today_str(d, clk)
           first == build_hours_for(times, temps, codes, precs, today)
           readsFirst == HourlyReads \cup {"timezone", "hourly.time[i]"}
       IN
  IF first # <<>>
  THEN [data |-> d, ret |-> HourlyView(a, today, first), reads |-> readsFirst,
        passes |-> <<today>>]
  ELSE LET current == GetOr(d, "current", EmptyDict) IN
  IF ~IsDict(current)
  THEN [data |-> d, ret |-> Raise("AttributeError"),
        reads |-> readsFirst \cup {"current"}, passes |-> <<today>>]
  ELSE LET current_time == Get(current, "time", None)
           readsAll == readsFirst \cup {"current", "current.time"}
       IN
  IF usable_current_time(current_time)
  THEN [data |-> d,
        ret |-> HourlyView(a, today,
                  build_hours_for(times, temps, codes, precs,
                                  Prefix(current_time.str, 10))),
        reads |-> readsAll,
        passes |-> <<today, Prefix(current_time.str, 10)>>]
  ELSE [data |-> d, ret |-> HourlyView(a, today, first), reads |-> readsAll,
        passes |-> <<today>>]

----------------------------------------------------------------------------
(* the environment: what the upstream API answers and what the clock shows *)

MaxDays == 2
MaxHours == 2
MaxCode == 100

D1 == "2024-01-01"
D2 == "2024-01-02"
D3 == "2024-01-03"

\* all sequences over S of length at most n
RECURSIVE SeqsUpTo(_, _)
SeqsUpTo(S, n) ==
  IF n = 0 THEN {<<>>}
  ELSE LET shorter == SeqsUpTo(S, n - 1)
       IN shorter \cup {Append(q, x) : q \in {r \in shorter : Len(r) = n - 1}, x \in S}

\* value arrays of length n; the codes alternate between known and unknown
CodeCycle == <<3, 4, 61>>
CodesOfLen(n) == List([i \in 1..n |-> Num(CodeCycle[((i - 1) % 3) + 1])])
MaxOfLen(n) == List([i \in 1..n |-> Num(10 + i)])
MinOfLen(n) == List([i \in 1..n |-> Num(i - 3)])
PrecOfLen(n) == List([i \in 1..n |-> Num(i - 1)])

Ok(payload) == [kind |-> "ok", payload |-> payload]

\* payloads whose current group varies
CurrentKeys ==
  {"temperature_2m", "relative_humidity_2m", "weather_code", "windspeed_10m", "time"}
FullCurrent(c) ==
  [k \in CurrentKeys |->
     CASE k = "temperature_2m" -> Num(18)
       [] k = "relative_humidity_2m" -> Num(60)
       [] k = "weather_code" -> c
       [] k = "windspeed_10m" -> Num(10)
       [] OTHER -> Str(D1 \o "T09:00")]
CurrentPayloads ==
  {Dict([current |-> Dict(Restrict(FullCurrent(c), S)), timezone |-> Str("Asia/Tokyo")]) :
     c \in {Num(1), Num(4), None}, S \in SUBSET CurrentKeys}
  \cup {EmptyDict, Dict([current |-> None])}

\* payloads whose daily group varies: ragged arrays, absent arrays
DayVals == {Str(D1), Str(D2)}
DailyGroup(times, lc, lx, ln, lp) ==
  Dict([time |-> List(times), weather_code |-> CodesOfLen(lc),
        temperature_2m_max |-> MaxOfLen(lx), temperature_2m_min |-> MinOfLen(ln),
        precipitation_sum |-> PrecOfLen(lp)])
DailyPayloads ==
  {Dict([daily |-> DailyGroup(times, lc, lx, ln, lp)]) :
     times \in SeqsUpTo(DayVals, MaxDays),
     lc \in 0..MaxDays, lx \in 0..MaxDays, ln \in 0..MaxDays, lp \in 0..MaxDays}
  \cup {Dict([daily |-> EmptyDict]),
        Dict([daily |-> Dict([time |-> List(<<Str(D1), Str(D2)>>),
                              temperature_2m_max |-> List(<<Num(10)>>)])])}

\* payloads whose hourly group varies: ragged arrays, timestamps of two
\* days in any order, an entry that is not a str
HourVals == {Str(D1 \o "T00:00"), Str(D1 \o "T01:00"), Str(D2 \o "T00:00"), Num(0)}
HourlyGroup(times, lt, lc, lp) ==
  Dict([time |-> List(times), temperature_2m |-> MaxOfLen(lt),
        weather_code |-> CodesOfLen(lc), precipitation |-> PrecOfLen(lp)])
RaggedHourlyPayloads ==
  {Dict([hourly |-> HourlyGroup(times, lt, lc, lp)]) :
     times \in SeqsUpTo(HourVals, MaxHours),
     lt \in 0..MaxHours, lc \in 0..MaxHours, lp \in 0..MaxHours}
  \cup {Dict([hourly |-> EmptyDict]),
        Dict([hourly |-> Dict([time |-> List(<<Str(D1 \o "T00:00")>>)])])}

\* payloads whose current.time and timezone vary, with full hourly arrays
CurrentVariants ==
  {None, EmptyDict, Dict([time |-> Num(5)]), Dict([time |-> Str("2024-01")]),
   Dict([time |-> Str(D2)]), Dict([time |-> Str(D1 \o "T09:00")]),
   Dict([time |-> Str(D2 \o "T09:00")])}
ZoneVariants == {None, Str("Asia/Tokyo"), Str("UTC"), Str("Bad/Zone")}
FallbackPayloads ==
  LET base(times) == [hourly |-> HourlyGroup(times, MaxHours, MaxHours, MaxHours)]
  IN {Dict(base(times) @@ [current |-> c]) :
        times \in SeqsUpTo(HourVals, MaxHours), c \in CurrentVariants}
     \cup {Dict(base(times) @@ [current |-> c, timezone |-> z]) :
        times \in SeqsUpTo(HourVals, MaxHours), c \in CurrentVariants,
        z \in ZoneVariants}

\* decoded payloads that carry an 'error' key next to other keys
ErrorPayloads ==
  {Dict([error |-> Bool(TRUE), reason |-> Str("Latitude must be in range of -90 to 90")]),
   Dict([error |-> Str("x"),
         current |-> Dict(FullCurrent(Num(1))),
         daily |-> DailyGroup(<<Str(D1)>>, 1, 1, 1, 1),
         hourly |-> HourlyGroup(<<Str(D1 \o "T00:00")>>, 1, 1, 1)])}

Failures ==
  {[kind |-> "transport", reason |-> "<urlopen error timed out>"],
   [kind |-> "transport", reason |-> ""],
   [kind |-> "http", reason |-> "HTTP Error 400: Bad Request"],
   [kind |-> "decode", reason |-> "Expecting value: line 1 column 1 (char 0)"]}

Clock(tokyo, utc, local) ==
  [zone |-> ("Asia/Tokyo" :> tokyo) @@ ("UTC" :> utc), local |-> local]
Clocks == {Clock(D1, D1, D1), Clock(D3, D2, D1)}

Envs ==
  {[upstream |-> u, clock |-> Clock(D1, D1, D1)] :
     u \in Failures \cup {Ok(p) : p \in CurrentPayloads \cup DailyPayloads \cup ErrorPayloads}}
  \cup {[upstream |-> Ok(p), clock |-> c] :
     p \in RaggedHourlyPayloads \cup FallbackPayloads, c \in Clocks}

\* the arguments of a tool call: Tokyo with a label, and the default label
Args ==
  {[latitude |-> 35, longitude |-> 139, location_name |-> "Tokyo"],
   [latitude |-> 35, longitude |-> 139, location_name |-> "shitei chiten"]}

----------------------------------------------------------------------------
(* the server: no state is kept between calls; the variables hold the       *)
(* environment and the outcome of the latest tool call                      *)

Init ==
  /\ \E e \in Envs : upstream = e.upstream /\ clock = e.clock
  /\ tool = "none"
  /\ args = None
  /\ data = None
  /\ result = None
  /\ reads = {}
  /\ passes = <<>>
  /\ stdout = <<>>
  /\ code = None
  /\ label = ""

GetCurrentWeather ==
  \E a \in Args :
    LET r == get_current_weather(upstream, a) IN
    /\ tool' = "get_current_weather"
    /\ args' = a
    /\ data' = r.data
    /\ result' = r.ret
    /\ reads' = r.reads
    /\ passes' = <<>>
    /\ stdout' = r.out
    /\ UNCHANGED <<upstream, clock, code, label>>

GetWeeklyForecast ==
  \E a \in Args :
    LET r == get_weekly_forecast(upstream, a) IN
    /\ tool' = "get_weekly_forecast"
    /\ args' = a
    /\ data' = r.data
    /\ result' = r.ret
    /\ reads' = r.reads
    /\ passes' = <<>>
    /\ stdout' = <<>>
    /\ UNCHANGED <<upstream, clock, code, label>>

GetTodayHourlyWeather ==
  \E a \in Args :
    LET r == get_today_hourly_weather(upstream, clock, a) IN
    /\ tool' = "get_today_hourly_weather"
    /\ args' = a
    /\ data' = r.data
    /\ result' = r.ret
    /\ reads' = r.reads
    /\ passes' = r.passes
    /\ stdout' = <<>>
    /\ UNCHANGED <<upstream, clock, code, label>>

Next == GetCurrentWeather \/ GetWeeklyForecast \/ GetTodayHourlyWeather

Spec == Init /\ [][Next]_vars

\* the translator on its own, over a range of integers
InitDescribe ==
  /\ upstream = [kind |-> "transport", reason |-> ""]
  /\ clock = Clock(D1, D1, D1)
  /\ tool = "none"
  /\ args = None
  /\ data = None
  /\ result = None
  /\ reads = {}
  /\ passes = <<>>
  /\ stdout = <<>>
  /\ code \in {Num(n) : n \in (0 - MaxCode)..MaxCode}
  /\ label = ""

Describe ==
  /\ tool' = "weather_code_to_description"
  /\ label' = weather_code_to_description(code)
  /\ UNCHANGED <<upstream, clock, args, data, result, reads, passes, stdout, code>>

NextDescribe == Describe

SpecDescribe == InitDescribe /\ [][NextDescribe]_vars

----------------------------------------------------------------------------
(* vocabulary of the properties *)

Builders == {"get_current_weather", "get_weekly_forecast", "get_today_hourly_weather"}

\* the latest call was tool t on a decoded payload without an 'error' key
Succeeded(t) ==
  /\ tool = t
  /\ upstream.kind = "ok"
  /\ "error" \notin DOMAIN upstream.payload.dict

\* group g of the payload, {} when absent; array k of a group, [] when absent
GroupOf(g) ==
  IF g \in DOMAIN upstream.payload.dict THEN upstream.payload.dict[g] ELSE EmptyDict
ArrayOf(g, k) ==
  IF k \in DOMAIN GroupOf(g).dict THEN GroupOf(g).dict[k].list ELSE <<>>

\* every group that is present is a mapping
GroupsAreMappings ==
  \A g \in {"current", "daily", "hourly"} :
     g \in DOMAIN upstream.payload.dict => IsDict(upstream.payload.dict[g])

\* today's date token for the payload's zone
Today == today_str(upstream.payload, clock)

\* the 1-based positions of the hourly timestamps that start with token
MatchesOf(token) ==
  {i \in 1..Len(ArrayOf("hourly", "time")) :
     /\ IsStr(ArrayOf("hourly", "time")[i])
     /\ Len(ArrayOf("hourly", "time")[i].str) >= Len(token)
     /\ SubSeq(ArrayOf("hourly", "time")[i].str, 1, Len(token)) = token}

\* the position in 'hours' of the record made from position i of the series
RankIn(M, i) == Cardinality({j \in M : j <= i})

\* the hour record expected for position i of the hourly series
ExpectedHour(i) ==
  LET temps == ArrayOf("hourly", "temperature_2m")
      codes == ArrayOf("hourly", "weather_code")
      precs == ArrayOf("hourly", "precipitation")
  IN Dict([time |-> ArrayOf("hourly", "time")[i],
           temperature |-> IF i <= Len(temps)
                           THEN Str(ToString(temps[i].num) \o "degC") ELSE Str("N/A"),
           weather |-> IF i <= Len(codes)
                       THEN Str(weather_code_to_description(codes[i])) ELSE Str("fumei"),
           weader_code |-> IF i <= Len(codes) THEN codes[i] ELSE None,
           precipitation |-> IF i <= Len(precs)
                             THEN Str(ToString(precs[i].num) \o " mm") ELSE Str("N/A")])

\* 'hours' holds exactly the records of the positions in M, in series order
HoursAre(M) ==
  /\ IsDict(result)
  /\ "hours" \in DOMAIN result.dict
  /\ Len(result.dict.hours.list) = Cardinality(M)
  /\ \A i \in M : result.dict.hours.list[RankIn(M, i)] = ExpectedHour(i)

\* current.time is a str of at least 10 characters
CurrentTimeUsable ==
  /\ IsDict(GroupOf("current"))
  /\ "time" \in DOMAIN GroupOf("current").dict
  /\ IsStr(GroupOf("current").dict.time)
  /\ Len(GroupOf("current").dict.time.str) >= 10

FallbackToken == SubSeq(GroupOf("current").dict.time.str, 1, 10)

----------------------------------------------------------------------------
(* properties *)

\* C1: whenever fetch_weather_data returns a value carrying an 'error' key,
\* each of the three view builders returns exactly that value and has read
\* no group, array or array index of the payload.
C1_ErrorPassThrough ==
  (tool \in Builders /\ IsDict(data) /\ "error" \in DOMAIN data.dict)
    => (result = data /\ reads = {})

C1_Witness ==
  /\ tool = "get_today_hourly_weather"
  /\ upstream.kind = "ok"
  /\ IsDict(data)
  /\ {"error", "hourly", "daily", "current"} \subseteq DOMAIN data.dict
  /\ result = data

\* C2: fetch_weather_data always returns a value; after a transport, HTTP or
\* decoding failure the value has 'error' as its only key, and after a
\* success it is the decoded payload itself.
C2_FetchTotal ==
  tool \in Builders =>
    /\ ~IsRaise(data)
    /\ IsDict(data)
    /\ upstream.kind \in FailureKinds => DOMAIN data.dict = {"error"}
    /\ upstream.kind = "ok" => data = upstream.payload

C2_Witness ==
  /\ tool \in Builders
  /\ upstream.kind = "decode"
  /\ IsDict(data)
  /\ DOMAIN data.dict = {"error"}

\* C3: on a decoded payload without an 'error' key, whose groups, arrays,
\* fields or array entries may be absent, every builder returns a mapping,
\* and the mapping has an 'error' key only for the hourly builder on an
\* empty or absent hourly time array.
C3_MissingDataDegrades ==
  \A t \in Builders :
    (Succeeded(t) /\ GroupsAreMappings) =>
      /\ IsDict(result)
      /\ "error" \in DOMAIN result.dict
           <=> (t = "get_today_hourly_weather" /\ ArrayOf("hourly", "time") = <<>>)

C3_Witness ==
  /\ Succeeded("get_weekly_forecast")
  /\ upstream.payload = EmptyDict
  /\ IsDict(result)
  /\ "error" \notin DOMAIN result.dict
  /\ result.dict.forecast = EmptyList

\* C4: get_weekly_forecast, for a daily time array of length N and value
\* arrays of length at most N, returns exactly N records; record i carries
\* date = time[i], and for each value array the formatted value at i when
\* the array is longer than i, the sentinel otherwise.
C4_WeeklyRecords ==
  LET times == ArrayOf("daily", "time")
      codes == ArrayOf("daily", "weather_code")
      tmax == ArrayOf("daily", "temperature_2m_max")
      tmin == ArrayOf("daily", "temperature_2m_min")
      prec == ArrayOf("daily", "precipitation_sum")
      Fmt(arr, i, suffix) ==
        IF i <= Len(arr) THEN Str(ToString(arr[i].num) \o suffix) ELSE Str("N/A")
  IN (/\ Succeeded("get_weekly_forecast")
      /\ IsDict(GroupOf("daily"))
      /\ \A arr \in {codes, tmax, tmin, prec} : Len(arr) <= Len(times))
     => /\ IsDict(result)
        /\ Len(result.dict.forecast.list) = Len(times)
        /\ \A i \in 1..Len(times) :
             LET rec == result.dict.forecast.list[i].dict IN
             /\ rec.date = times[i]
             /\ rec.weather = IF i <= Len(codes)
                              THEN Str(weather_code_to_description(codes[i]))
                              ELSE Str("fumei")
             /\ rec.temparature_max = Fmt(tmax, i, "degC")
             /\ rec.temparature_min = Fmt(tmin, i, "degC")
             /\ rec.precipitation = Fmt(prec, i, " mm")

\* daily.time = [D1, D2] with temperature_2m_max = [10]
C4_Witness ==
  /\ Succeeded("get_weekly_forecast")
  /\ ArrayOf("daily", "time") = <<Str(D1), Str(D2)>>
  /\ ArrayOf("daily", "temperature_2m_max") = <<Num(10)>>
  /\ ArrayOf("daily", "weather_code") = <<>>
  /\ result.dict.forecast.list[1].dict.temparature_max = Str("10degC")
  /\ result.dict.forecast.list[2].dict.temparature_max = Str("N/A")
  /\ result.dict.forecast.list[2].dict.date = Str(D2)

\* C5: when no hourly timestamp starts with today's token and current.time
\* has a different date prefix that m hourly timestamps start with, 'hours'
\* holds exactly those m records and 'date' equals that prefix.
C5_FallbackDate ==
  (/\ Succeeded("get_today_hourly_weather")
   /\ ArrayOf("hourly", "time") # <<>>
   /\ MatchesOf(Today) = {}
   /\ CurrentTimeUsable
   /\ FallbackToken # Today)
  => /\ HoursAre(MatchesOf(FallbackToken))
     /\ result.dict.date = Str(FallbackToken)

\* C6: when k >= 1 hourly timestamps start with today's token, 'hours' has
\* exactly k records, one per matching position in series order and none for
\* any other position; each record has the token as prefix of its time and
\* the sentinel for every value array too short for its position.
C6_PrimaryPass ==
  (/\ Succeeded("get_today_hourly_weather")
   /\ IsDict(GroupOf("hourly"))
   /\ MatchesOf(Today) # {})
  => /\ HoursAre(MatchesOf(Today))
     /\ \A j \in 1..Len(result.dict.hours.list) :
          LET t == result.dict.hours.list[j].dict.time IN
          /\ IsStr(t)
          /\ SubSeq(t.str, 1, 10) = Today

C6_Witness ==
  /\ Succeeded("get_today_hourly_weather")
  /\ Len(ArrayOf("hourly", "time")) = 2
  /\ MatchesOf(Today) = {2}
  /\ Len(result.dict.hours.list) = 1
  /\ result.dict.hours.list[1].dict.time = ArrayOf("hourly", "time")[2]
  /\ result.dict.hours.list[1].dict.temperature = Str("N/A")
  /\ result.dict.hours.list[1].dict.weader_code = None
  /\ result.dict.hours.list[1].dict.precipitation = Str("1 mm")

\* C7: when the hourly time array is empty or absent, whatever the timezone
\* and current fields are, get_today_hourly_weather returns the
\* hourly-unavailable error, whose text no error of the fetcher can have.
C7_HourlyUnavailable ==
  (/\ Succeeded("get_today_hourly_weather")
   /\ IsDict(GroupOf("hourly"))
   /\ ArrayOf("hourly", "time") = <<>>)
  => /\ result = Dict([error |-> Str("jikan deta ga shutoku dekimasen deshita.")])
     /\ SubSeq(result.dict.error.str, 1, Len(ApiErrorPrefix)) # ApiErrorPrefix
     /\ \A f \in Failures : result # fetch_weather_data(f)

C7_Witness ==
  /\ Succeeded("get_today_hourly_weather")
  /\ "hourly" \in DOMAIN upstream.payload.dict
  /\ ArrayOf("hourly", "time") = <<>>
  /\ "current" \in DOMAIN upstream.payload.dict
  /\ upstream.payload.dict.current = None
  /\ "timezone" \in DOMAIN upstream.payload.dict
  /\ upstream.payload.dict.timezone = Str("Bad/Zone")
  /\ DOMAIN result.dict = {"error"}

\* the 28 codes of the table
KnownCodes ==
  {0, 1, 2, 3, 45, 48, 51, 53, 55, 56, 57, 61, 63, 65, 66, 67, 71, 73, 75, 77,
   80, 81, 82, 85, 86, 95, 96, 99}

\* C8: weather_code_to_description returns, for each of the 28 codes of its
\* table, that code's label, and for every other integer the unknown-code
\* marker followed by the integer, which is never one of the labels.
C8_DescribeTotal ==
  tool = "weather_code_to_description" =>
    /\ Cardinality(KnownCodes) = 28
    /\ DOMAIN weather_descriptions = KnownCodes
    /\ code.num \in KnownCodes => label = weather_descriptions[code.num]
    /\ code.num = 0 => label = "hare"
    /\ code.num = 1 => label = "omo ni hare"
    /\ code.num = 99 => label = "hageshii raiu to hyo"
    /\ code.num \notin KnownCodes =>
         /\ label = "fumei na tenki kodo: " \o ToString(code.num)
         /\ \A k \in KnownCodes : label # weather_descriptions[k]

C8_Witness ==
  /\ tool = "weather_code_to_description"
  /\ code = Num(4)
  /\ label = "fumei na tenki kodo: 4"

\* C9: get_current_weather on a successful fetch formats temperature,
\* humidity and windspeed as the value (or "N/A" when absent) with the unit
\* suffix; 'weather' is the description of current.weather_code, of code 0
\* when the code is absent; 'weather_code' is the raw code, null when absent.
C9_CurrentView ==
  LET cur == GroupOf("current").dict
      Fmt(k, suffix) ==
        IF k \in DOMAIN cur THEN Str(ToString(cur[k].num) \o suffix)
        ELSE Str("N/A" \o suffix)
  IN (Succeeded("get_current_weather") /\ IsDict(GroupOf("current")))
     => /\ IsDict(result)
        /\ result.dict.temperature = Fmt("temperature_2m", "degC")
        /\ result.dict.humidity = Fmt("relative_humidity_2m", "%")
        /\ result.dict.windspeed = Fmt("windspeed_10m", " km/h")
        /\ "weather_code" \in DOMAIN cur =>
             /\ result.dict.weather = Str(weather_code_to_description(cur.weather_code))
             /\ result.dict.weather_code = cur.weather_code
             /\ cur.weather_code = Num(1) => result.dict.weather = Str("omo ni hare")
        /\ "weather_code" \notin DOMAIN cur =>
             /\ result.dict.weather = Str("hare")
             /\ result.dict.weather_code = None

C9_Witness ==
  /\ Succeeded("get_current_weather")
  /\ "current" \in DOMAIN upstream.payload.dict
  /\ IsDict(GroupOf("current"))
  /\ DOMAIN GroupOf("current").dict = {"temperature_2m", "windspeed_10m"}
  /\ result.dict.temperature = Str("18degC")
  /\ result.dict.humidity = Str("N/A%")
  /\ result.dict.weather = Str("hare")
  /\ result.dict.weather_code = None

\* C10: get_today_hourly_weather runs the second filter pass exactly when
\* the first pass gave no record and current.time is a str of at least 10
\* characters; when the first pass gave a record, 'hours' is the first-pass
\* result whatever current.time is; when both passes gave nothing the result
\* is a mapping without 'error' and with an empty 'hours'.
C10_FallbackTrigger ==
  (/\ Succeeded("get_today_hourly_weather")
   /\ IsDict(GroupOf("hourly"))
   /\ ArrayOf("hourly", "time") # <<>>)
  => /\ Len(passes) \in {1, 2}
     /\ passes[1] = Today
     /\ Len(passes) = 2 <=> (MatchesOf(Today) = {} /\ CurrentTimeUsable)
     /\ Len(passes) = 2 => passes[2] = FallbackToken
     /\ MatchesOf(Today) # {} => HoursAre(MatchesOf(Today))
     /\ (/\ MatchesOf(Today) = {}
         /\ IsDict(GroupOf("current"))
         /\ CurrentTimeUsable => MatchesOf(FallbackToken) = {})
        => /\ IsDict(result)
           /\ "error" \notin DOMAIN result.dict
           /\ result.dict.hours = EmptyList

C10_Witness ==
  /\ Succeeded("get_today_hourly_weather")
  /\ Len(passes) = 2
  /\ passes[1] # passes[2]
  /\ Len(ArrayOf("hourly", "time")) = 2
  /\ IsDict(result)
  /\ result.dict.hours = EmptyList

====
